---- MODULE Spec2Model ----
(***************************************************************************)
(* A model of opennmt/runner.py: the batch-size autotuner and the          *)
(* finalisation of the training parameters, the manual training loop of    *)
(* Runner.train with gradient accumulation and checkpointing, and the      *)
(* inference loop of Runner.infer with its order restoring writer.         *)
(***************************************************************************)
EXTENDS Integers, Sequences, FiniteSets, TLC

(***************************************************************************)
(* Python values.  None and "key not in the dict" are encoded as negative  *)
(* integers, every configuration value that is a number being >= 0.        *)
(***************************************************************************)
NoneV == -1
Absent == -2

\* dict.get(key, default)
Get(v, default) == IF v = Absent THEN default ELSE v

Min2(a, b) == IF a < b THEN a ELSE b

(***************************************************************************)
(* Bounds of the model and constants of the program.                       *)
(***************************************************************************)
MaxDevices == 2
MaxTrials == 8
MaxCallMin == 2
MaxCallSpan == 5
MaxCallRange == 2
MaxBatches == 6
MaxTrainSteps == 3
MaxAccum == 3
MaxExamples == 4
MaxInferBatch == 2

DefaultMinBatchSize == 1024
DefaultMaxBatchSize == 16384
DefaultMinRange == 256
SampleIterations == 5
GpuMemoryPercent == 80

ExitCodes == {0, 1, -9}
BatchSizes == {NoneV, 0, 512, 1000}
EffectiveSizes == {NoneV, 512, 4096, 20000}

VARIABLES
  \* _finalize_training_parameters and _auto_tune_batch_size
  tune_pc,            \* position in _finalize_training_parameters / _auto_tune_batch_size
  entry,              \* "finalize": called by Runner.train; "call": the function called directly
  train_config,       \* config["train"]: batch_size, batch_type, effective_batch_size
  gradients_accum,    \* config["params"]["gradients_accum"] of the runner
  num_devices,        \* Runner._num_devices = Runner._num_replicas
  tune_args,          \* the arguments _auto_tune_batch_size was entered with
  min_batch_size,     \* the search's low bound
  max_batch_size,     \* the search's high bound
  batch_size,         \* the candidate of the current iteration
  trial_config,       \* the configuration written to config_path for the trial
  scratch,            \* the scratch files that exist in model_dir
  alive,              \* trial processes started and not yet waited for
  trials,             \* history: <<candidate, exit code>> of every finished trial
  tune_ret            \* the value _auto_tune_batch_size returned

tuneVars == <<tune_pc, entry, train_config, gradients_accum, num_devices, tune_args,
              min_batch_size, max_batch_size, batch_size, trial_config, scratch,
              alive, trials, tune_ret>>

VARIABLES
  \* Runner.train
  train_pc,           \* position in Runner.train
  run_config,         \* the entries of config["train"] and config["params"] train reads
  TF_CONFIG,          \* the environment variable: <<>> when unset, else <<descriptor>>
  checkpoint_path,    \* the argument of train
  restored,           \* the checkpoint train restored, <<>> when none (lines 328-333)
  model_dir,          \* the records of model_dir, as steps, oldest saved first
  iterations,         \* optimizer.iterations
  gradients,          \* the accumulation buffers, one per trainable variable
  i,                  \* the index of the next micro-batch (enumerate)
  accum_num_words,    \* the rolling counters
  step_gradients,     \* history: the gradients of every micro-batch
  step_num_words,     \* history: the counters of every micro-batch
  applications,       \* history: what every _apply_gradients handed to the optimizer
  saves,              \* history: the step of every checkpoint_manager.save
  reports,            \* history: the step and counters of every status report
  averaged,           \* history: the records every averaging read
  is_chief_calls,     \* history: what every is_chief() returned
  train_ret           \* what train returned

trainVars == <<train_pc, run_config, TF_CONFIG, checkpoint_path, restored, model_dir, iterations,
               gradients, i, accum_num_words, step_gradients, step_num_words, applications,
                 saves,
               reports, averaged, is_chief_calls, train_ret>>

VARIABLES
  \* Runner.infer
  infer_pc,           \* position in Runner.infer
  infer_args,         \* predictions_file given or not, log_time
  infer_restored,     \* the checkpoint _restore_checkpoint returned, <<>> for None
  num_examples,       \* the number of examples of features_file
  dataset,            \* the examples the dataset has not yielded yet
  indexed,            \* whether the predictions carry an "index" field
  stream_open,        \* whether the stream opened on predictions_file is open
  ordered_writer,     \* <<>> for None, else <<the OrderRestorer>>
  written,            \* history: the predictions handed to write_fn, in order
  total_examples      \* the examples counted when log_time is set

inferVars == <<infer_pc, infer_args, infer_restored, num_examples, dataset, indexed, stream_open,
               ordered_writer, written, total_examples>>

vars == <<tuneVars, trainVars, inferVars>>

(***************************************************************************)
(* _count_batch_accum: int(math.ceil(float(target) / (batch_size *         *)
(* num_replicas))).  The float quotient of two integers below 2^53 is     *)
(* correctly rounded, so its ceiling is the integer ceiling.  The batch    *)
(* sizes and the replica counts of the model are all >= 1.                 *)
(***************************************************************************)
CountBatchAccumFloor(bs, target_batch_size, num_replicas) ==
  target_batch_size \div (bs * num_replicas)

CountBatchAccum(bs, target_batch_size, num_replicas) ==
  LET d == bs * num_replicas
  IN  IF target_batch_size % d = 0
        THEN target_batch_size \div d
        ELSE (target_batch_size \div d) + 1

(***************************************************************************)
(* Runner._finalize_training_parameters, lines 166-191.                    *)
(***************************************************************************)
NeedsAutoTune(tc) == tc.batch_size = NoneV \/ tc.batch_size = 0

\* line 172: only the "tokens" batch type can be searched
SearchableAny(batch_type) == TRUE

Searchable(batch_type) == batch_type # "examples"

\* max_batch_size handed to _auto_tune_batch_size (lines 174-176)
FinalizeMaxBatchSize(tc) ==
  IF tc.effective_batch_size # NoneV
    THEN Min2(DefaultMaxBatchSize, tc.effective_batch_size)
    ELSE DefaultMaxBatchSize

\* lines 183-187: the accumulation count once the batch size is known
FinalizeAccum(tc, bs, accum, replicas) ==
  IF tc.effective_batch_size # NoneV
    THEN CountBatchAccum(bs, tc.effective_batch_size, replicas)
    ELSE accum

(***************************************************************************)
(* _auto_tune_batch_size, lines 644-731.                                   *)
(***************************************************************************)
ConfigPath == "batch_size_autotuner.yml"
SessionConfigPath == "batch_size_autotuner.proto"

NoArgs == [min_batch_size |-> NoneV, max_batch_size |-> NoneV, min_range |-> NoneV,
           sample_iterations |-> NoneV, gpu_memory_fraction |-> NoneV]

\* the keyword defaults of the signature, lines 645-650
DefaultArgs(maxsize) ==
  [min_batch_size |-> DefaultMinBatchSize, max_batch_size |-> maxsize,
   min_range |-> DefaultMinRange, sample_iterations |-> SampleIterations,
   gpu_memory_fraction |-> GpuMemoryPercent]

\* line 683: session_config_path is set, and the file written, iff the fraction is < 1
SessionConfigWritten(args) == args.gpu_memory_fraction < 100

\* line 700: the loop condition
ContinueSearch(lo, hi, rng) == hi - lo > rng

\* line 701
Candidate(lo, hi) == (hi + lo) \div 2

\* lines 717-723: the bounds after a trial of cand that ended with exit_code
MaxAfterNoDecrement(cand, exit_code, hi) == IF exit_code # 0 THEN cand ELSE hi

MaxAfter(cand, exit_code, hi) == IF exit_code # 0 THEN cand - 1 ELSE hi

MinAfterSwapped(cand, exit_code, lo) == IF exit_code # 0 THEN cand ELSE lo

MinAfter(cand, exit_code, lo) == IF exit_code # 0 THEN lo ELSE cand

\* line 715: process.wait() returns once the trial process has terminated
ReapedNone(n) == n

Reaped(n) == n - 1

\* lines 675-678 and 705-708: the disposable configuration of a trial
TrialConfig(tc, accum, cand, args, replicas) ==
  [batch_size |-> cand,
   gradients_accum |-> IF tc.effective_batch_size # NoneV
                         THEN CountBatchAccum(cand, tc.effective_batch_size, replicas)
                         ELSE accum,
   train_steps |-> args.sample_iterations,
   save_checkpoints_steps |-> NoneV,
   average_last_checkpoints |-> 0]

\* lines 675-698: from the call to the first test of the loop
AutoTuneEnter(args) ==
  /\ tune_args' = args
  /\ min_batch_size' = args.min_batch_size
  /\ max_batch_size' = args.max_batch_size
  /\ scratch' = IF SessionConfigWritten(args) THEN scratch \cup {SessionConfigPath} ELSE scratch
  /\ tune_pc' = "while"
  /\ UNCHANGED <<entry, train_config, gradients_accum, num_devices, batch_size,
                 trial_config, alive, trials, tune_ret, trainVars, inferVars>>

\* lines 171-173: no batch size and a batch type that cannot be searched
FinalizeRaise ==
  /\ entry = "finalize" /\ tune_pc = "entry"
  /\ NeedsAutoTune(train_config)
  /\ ~Searchable(train_config.batch_type)
  /\ tune_pc' = "raised"
  /\ UNCHANGED <<entry, train_config, gradients_accum, num_devices, tune_args,
                 min_batch_size, max_batch_size, batch_size, trial_config, scratch,
                 alive, trials, tune_ret, trainVars, inferVars>>

\* lines 171-180: no batch size, the search is entered
FinalizeAutoTune ==
  /\ entry = "finalize" /\ tune_pc = "entry"
  /\ NeedsAutoTune(train_config)
  /\ Searchable(train_config.batch_type)
  /\ AutoTuneEnter(DefaultArgs(FinalizeMaxBatchSize(train_config)))

\* lines 168-171 and 183-187: a batch size is configured
FinalizeNoTune ==
  /\ entry = "finalize" /\ tune_pc = "entry"
  /\ ~NeedsAutoTune(train_config)
  /\ gradients_accum' = FinalizeAccum(train_config, train_config.batch_size,
                                      gradients_accum, num_devices)
  /\ tune_pc' = "finalized"
  /\ UNCHANGED <<entry, train_config, num_devices, tune_args, min_batch_size,
                 max_batch_size, batch_size, trial_config, scratch, alive, trials,
                 tune_ret, trainVars, inferVars>>

\* _auto_tune_batch_size called with arguments of the caller's choice
CallAutoTune ==
  /\ entry = "call" /\ tune_pc = "entry"
  /\ AutoTuneEnter(tune_args)

\* lines 700-714: one more iteration; the trial configuration is written and
\* the trial process is started
TrialLaunch ==
  /\ tune_pc = "while"
  /\ ContinueSearch(min_batch_size, max_batch_size, tune_args.min_range)
  /\ Len(trials) < MaxTrials
  /\ batch_size' = Candidate(min_batch_size, max_batch_size)
  /\ trial_config' = TrialConfig(train_config, gradients_accum, batch_size',
                                 tune_args, num_devices)
  /\ scratch' = scratch \cup {ConfigPath}
  /\ alive' = alive + 1
  /\ tune_pc' = "wait"
  /\ UNCHANGED <<entry, train_config, gradients_accum, num_devices, tune_args,
                 min_batch_size, max_batch_size, trials, tune_ret, trainVars, inferVars>>

\* lines 700-714 when subprocess.Popen raises (no executable): the error leaves
\* the function, nothing is cleaned up
TrialLaunchRaises ==
  /\ tune_pc = "while"
  /\ ContinueSearch(min_batch_size, max_batch_size, tune_args.min_range)
  /\ Len(trials) < MaxTrials
  /\ batch_size' = Candidate(min_batch_size, max_batch_size)
  /\ trial_config' = TrialConfig(train_config, gradients_accum, batch_size',
                                 tune_args, num_devices)
  /\ scratch' = scratch \cup {ConfigPath}
  /\ tune_pc' = "raised"
  /\ UNCHANGED <<entry, train_config, gradients_accum, num_devices, tune_args,
                 min_batch_size, max_batch_size, alive, trials, tune_ret, trainVars, inferVars>>

\* lines 715-723: process.wait() returns, the bounds are updated
TrialExit ==
  /\ tune_pc = "wait"
  /\ \E exit_code \in ExitCodes :
       /\ trials' = Append(trials, [batch_size |-> batch_size, exit_code |-> exit_code])
       /\ max_batch_size' = MaxAfter(batch_size, exit_code, max_batch_size)
       /\ min_batch_size' = MinAfter(batch_size, exit_code, min_batch_size)
  /\ alive' = Reaped(alive)
  /\ tune_pc' = "while"
  /\ UNCHANGED <<entry, train_config, gradients_accum, num_devices, tune_args,
                 batch_size, trial_config, scratch, tune_ret, trainVars, inferVars>>

\* lines 725-731, then lines 177 and 183-187 when called by the runner: the loop
\* ends, the scratch files are removed and the low bound is returned
TuneReturn ==
  /\ tune_pc = "while"
  /\ ~ContinueSearch(min_batch_size, max_batch_size, tune_args.min_range)
  /\ ConfigPath \in scratch
  /\ scratch' = scratch \ {ConfigPath, SessionConfigPath}
  /\ tune_ret' = min_batch_size
  /\ IF entry = "finalize"
       THEN /\ train_config' = [train_config EXCEPT !.batch_size = min_batch_size]
            /\ gradients_accum' = FinalizeAccum(train_config, min_batch_size,
                                                gradients_accum, num_devices)
            /\ tune_pc' = "finalized"
       ELSE /\ UNCHANGED <<train_config, gradients_accum>>
            /\ tune_pc' = "returned"
  /\ UNCHANGED <<entry, num_devices, tune_args, min_batch_size, max_batch_size,
                 batch_size, trial_config, alive, trials, trainVars, inferVars>>

\* line 728 when the loop body never ran: config_path was never written and
\* os.remove raises
TuneCleanupRaises ==
  /\ tune_pc = "while"
  /\ ~ContinueSearch(min_batch_size, max_batch_size, tune_args.min_range)
  /\ ConfigPath \notin scratch
  /\ tune_pc' = "raised"
  /\ UNCHANGED <<entry, train_config, gradients_accum, num_devices, tune_args,
                 min_batch_size, max_batch_size, batch_size, trial_config, scratch,
                 alive, trials, tune_ret, trainVars, inferVars>>

\* Runner.train is not running
IdleTrain ==
  /\ train_pc = "idle"
  /\ run_config = NoneV /\ TF_CONFIG = <<>> /\ checkpoint_path = NoneV
  /\ restored = <<>>
  /\ model_dir = <<>> /\ iterations = 0 /\ gradients = <<>> /\ i = 0
  /\ accum_num_words = <<>> /\ step_gradients = <<>> /\ step_num_words = <<>> /\ applications = <<>>
  /\ saves = <<>> /\ reports = <<>> /\ averaged = <<>> /\ is_chief_calls = <<>>
  /\ train_ret = ""

\* Runner.infer is not running
IdleInfer ==
  /\ infer_pc = "idle" /\ infer_args = NoneV /\ infer_restored = <<>>
  /\ num_examples = 0 /\ dataset = {} /\ indexed = FALSE /\ stream_open = FALSE
  /\ ordered_writer = <<>> /\ written = <<>> /\ total_examples = 0

CallArgs ==
  {DefaultArgs(DefaultMaxBatchSize)} \cup
  { [min_batch_size |-> lo, max_batch_size |-> lo + span, min_range |-> rng,
     sample_iterations |-> SampleIterations, gpu_memory_fraction |-> g] :
       lo \in 1..MaxCallMin, span \in 0..MaxCallSpan, rng \in 0..MaxCallRange,
       g \in {GpuMemoryPercent, 100} }

InitTune ==
  /\ entry \in {"finalize", "call"}
  /\ num_devices \in 1..MaxDevices
  /\ train_config \in [batch_size : IF entry = "call" THEN {NoneV} ELSE BatchSizes,
                        batch_type : IF entry = "call" THEN {"tokens"}
                                                       ELSE {"examples", "tokens"},
                        effective_batch_size : EffectiveSizes]
  /\ tune_args \in IF entry = "call" THEN CallArgs ELSE {NoArgs}
  /\ gradients_accum = Absent
  /\ tune_pc = "entry"
  /\ min_batch_size = NoneV /\ max_batch_size = NoneV /\ batch_size = NoneV
  /\ trial_config = NoneV
  /\ scratch = {}
  /\ alive = 0
  /\ trials = <<>>
  /\ tune_ret = NoneV
  /\ IdleTrain
  /\ IdleInfer

NextTune ==
  \/ FinalizeRaise
  \/ FinalizeAutoTune
  \/ FinalizeNoTune
  \/ CallAutoTune
  \/ TrialLaunch
  \/ TrialLaunchRaises
  \/ TrialExit
  \/ TuneReturn
  \/ TuneCleanupRaises

SpecTune == InitTune /\ [][NextTune]_vars

(***************************************************************************)
(* Runner.train, lines 263-370.  The model starts after line 272, the      *)
(* parameters being finalised: gradients_accum is absent or >= 1.          *)
(***************************************************************************)
DefaultKeepCheckpointMax == 8
DefaultSaveCheckpointsSteps == 5000
DefaultSaveSummarySteps == 100

\* the micro-batches the dataset may yield: the gradients _step computes on
\* one, per trainable variable, and the sums of its length fields
Batches ==
  { [gradients |-> <<1, 2>>, source |-> 1, target |-> 2],
    [gradients |-> <<-1, 3>>, source |-> 2, target |-> 1] }

\* lines 300-304: the buffers are allocated as zeros by the first step, then
\* every step gradient is added to its buffer
StepAccumulateOverwrite(acc, g) == g

StepAccumulate(acc, g) ==
  LET base == IF acc = <<>> THEN [v \in DOMAIN g |-> 0] ELSE acc
  IN  [v \in DOMAIN base |-> base[v] + g[v]]

\* lines 317-318: every buffer is assigned zeros
ZeroGradientsKeep(acc) == acc

ZeroGradients(acc) == [v \in DOMAIN acc |-> 0]

\* line 346: whether the accumulated gradients are applied after micro-batch idx
ApplyNowNoFirst(idx, accum_count) == (idx + 1) % accum_count = 0

ApplyNow(idx, accum_count) == idx = 0 \/ (idx + 1) % accum_count = 0

\* lines 349-354: the rolling counters after the counters of one micro-batch
AddWordsOverwrite(acc, batch) == [key \in {"source", "target"} |-> batch[key]]

AddWords(acc, batch) ==
  [key \in {"source", "target"} |->
     IF key \in DOMAIN acc THEN acc[key] + batch[key] ELSE batch[key]]

\* lines 733-749: _report_training_status resets every counter it reports
ResetWords(acc) == [key \in DOMAIN acc |-> 0]

\* line 357
ShouldReport(step, report_every) == step % report_every = 0

\* line 364; save_checkpoints_steps = None makes the modulo raise TypeError
SaveRaises(save_checkpoints_steps) == save_checkpoints_steps = NoneV

ShouldSaveIntervalOnly(step, save_checkpoints_steps, train_steps) ==
  step % save_checkpoints_steps = 0

ShouldSave(step, save_checkpoints_steps, train_steps) ==
  step % save_checkpoints_steps = 0 \/ step = train_steps

\* line 367
ShouldBreak(step, train_steps) == step = train_steps

\* lines 324-327: max_to_keep of the checkpoint manager
ManagerMaxToKeepDefault(rc) == DefaultKeepCheckpointMax

ManagerMaxToKeep(rc) == Get(rc.keep_checkpoint_max, DefaultKeepCheckpointMax)

\* tf.train.CheckpointManager.save(checkpoint_number = step): the record
\* ckpt-<step> is written (replacing one of that number) as the newest, then the
\* oldest records beyond max_to_keep are deleted
ManagerSave(dir, step, max_to_keep) ==
  LET kept == SelectSeq(dir, LAMBDA s : s # step)
      all == Append(kept, step)
  IN  IF Len(all) > max_to_keep
        THEN SubSeq(all, Len(all) - max_to_keep + 1, Len(all))
        ELSE all

\* tf.train.latest_checkpoint / CheckpointManager.latest_checkpoint: the record
\* saved last, <<>> standing for None
LatestCheckpoint(dir) == IF dir = <<>> THEN <<>> ELSE <<dir[Len(dir)]>>

\* lines 328-331: the checkpoint train restores, <<>> standing for None
ResolveCheckpointPath(path, dir) ==
  CASE path.kind = "dir" -> LatestCheckpoint(path.records)
    [] path.kind = "file" -> <<path.step>>
    [] OTHER -> LatestCheckpoint(dir)

\* line 335: whether the restored run already reached train_steps
AlreadyReachedStrict(step, train_steps) ==
  train_steps # NoneV /\ step > train_steps

AlreadyReached(step, train_steps) ==
  train_steps # NoneV /\ step >= train_steps

\* Runner.is_chief, lines 134-140
IsChiefNoDefault(env) ==
  IF env = <<>> THEN FALSE ELSE env[1].task.type = "chief"

IsChief(env) ==
  IF env = <<>> THEN TRUE ELSE env[1].task.type = "chief"

\* line 401: averaging is enabled by a positive average_last_checkpoints
AveragingEnabledAlways(average_last_checkpoints) == average_last_checkpoints >= 0

AveragingEnabled(average_last_checkpoints) == average_last_checkpoints > 0

\* checkpoint.average_checkpoints: the records averaged, the last max_count by step
LastByStep(dir, max_count) ==
  LET S == {dir[k] : k \in DOMAIN dir}
  IN  {s \in S : Cardinality({t \in S : t > s}) < max_count}

\* lines 328-343: the checkpoint is resolved and restored; train returns at once
\* when the restored step reached train_steps
TrainStart ==
  /\ train_pc = "entry"
  /\ LET train_steps == Get(run_config.train_steps, NoneV)
         resolved == ResolveCheckpointPath(checkpoint_path, model_dir)
     IN  /\ restored' = resolved
         /\ IF resolved = <<>>
           THEN /\ train_pc' = "loop"
                /\ UNCHANGED <<iterations, train_ret>>
           ELSE /\ iterations' = resolved[1]
                /\ IF AlreadyReached(resolved[1], train_steps)
                     THEN train_pc' = "returned" /\ train_ret' = "model_dir"
                     ELSE train_pc' = "loop" /\ UNCHANGED train_ret
  /\ UNCHANGED <<run_config, TF_CONFIG, checkpoint_path, model_dir, gradients, i,
                 accum_num_words, step_gradients, step_num_words, applications, saves, reports,
                 averaged, is_chief_calls, tuneVars, inferVars>>

\* lines 344-368: one iteration of the loop on the micro-batch the dataset yields
TrainIter ==
  /\ train_pc = "loop"
  /\ i < MaxBatches
  /\ \E batch \in Batches :
       LET train_steps == Get(run_config.train_steps, NoneV)
           save_checkpoints_steps ==
             Get(run_config.save_checkpoints_steps, DefaultSaveCheckpointsSteps)
           report_every == Get(run_config.save_summary_steps, DefaultSaveSummarySteps)
           accum_count == Get(run_config.gradients_accum, 1)
           summed == StepAccumulate(gradients, batch.gradients)
           apply == ApplyNow(i, accum_count)
           step == IF apply THEN iterations + 1 ELSE iterations
           words == AddWords(accum_num_words, batch)
           report == ShouldReport(step, report_every)
           raises == SaveRaises(save_checkpoints_steps)
           save == ~raises /\ ShouldSave(step, save_checkpoints_steps, train_steps)
       IN  /\ step_gradients' = Append(step_gradients, batch.gradients)
           /\ step_num_words' = Append(step_num_words,
                                        [key \in {"source", "target"} |-> batch[key]])
           /\ gradients' = IF apply THEN ZeroGradients(summed) ELSE summed
           /\ applications' = IF apply
                                THEN Append(applications, [at |-> i, value |-> summed])
                                ELSE applications
           /\ iterations' = step
           /\ reports' = IF report
                           THEN Append(reports, [at |-> i, step |-> step, words |-> words])
                           ELSE reports
           /\ accum_num_words' = IF report THEN ResetWords(words) ELSE words
           /\ saves' = IF save THEN Append(saves, step) ELSE saves
           /\ model_dir' = IF save
                             THEN ManagerSave(model_dir, step, ManagerMaxToKeep(run_config))
                             ELSE model_dir
           /\ train_pc' = IF raises THEN "raised"
                          ELSE IF ShouldBreak(step, train_steps) THEN "after_loop"
                          ELSE "loop"
           /\ i' = IF raises \/ ShouldBreak(step, train_steps) THEN i ELSE i + 1
  /\ UNCHANGED <<run_config, TF_CONFIG, checkpoint_path, restored, averaged, is_chief_calls,
                 train_ret, tuneVars, inferVars>>

\* line 344: the dataset is exhausted
DatasetExhausted ==
  /\ train_pc = "loop"
  /\ train_pc' = "after_loop"
  /\ UNCHANGED <<run_config, TF_CONFIG, checkpoint_path, restored, model_dir, iterations,
                 gradients, i, accum_num_words, step_gradients, step_num_words, applications,
                 saves,
                 reports, averaged, is_chief_calls, train_ret, tuneVars, inferVars>>

\* lines 370 and 388-405: _maybe_average_checkpoints.  is_chief() is called only
\* when averaging is enabled; averaging a directory without record fails.
MaybeAverageCheckpoints ==
  /\ train_pc = "after_loop"
  /\ LET average_last_checkpoints == Get(run_config.average_last_checkpoints, 0)
     IN  IF AveragingEnabled(average_last_checkpoints)
           THEN /\ is_chief_calls' = Append(is_chief_calls, IsChief(TF_CONFIG))
                /\ IF IsChief(TF_CONFIG)
                     THEN IF model_dir = <<>>
                            THEN train_pc' = "raised" /\ UNCHANGED <<averaged, train_ret>>
                            ELSE /\ averaged' = Append(averaged,
                                        LastByStep(model_dir, average_last_checkpoints))
                                 /\ train_ret' = "model_dir/avg"
                                 /\ train_pc' = "returned"
                     ELSE /\ train_ret' = "model_dir"
                          /\ train_pc' = "returned"
                          /\ UNCHANGED averaged
           ELSE /\ train_ret' = "model_dir"
                /\ train_pc' = "returned"
                /\ UNCHANGED <<averaged, is_chief_calls>>
  /\ UNCHANGED <<run_config, TF_CONFIG, checkpoint_path, restored, model_dir, iterations,
                 gradients, i, accum_num_words, step_gradients, step_num_words, applications,
                 saves,
                 reports, tuneVars, inferVars>>

\* _finalize_training_parameters is not running
IdleTune ==
  /\ tune_pc = "idle" /\ entry = "idle"
  /\ train_config = NoneV /\ gradients_accum = Absent /\ num_devices = 1
  /\ tune_args = NoArgs
  /\ min_batch_size = NoneV /\ max_batch_size = NoneV /\ batch_size = NoneV
  /\ trial_config = NoneV /\ scratch = {} /\ alive = 0 /\ trials = <<>>
  /\ tune_ret = NoneV

\* TF_CONFIG: unset, or a descriptor with a task type
Descriptors == { <<>> } \cup { <<[task |-> [type |-> t]]>> : t \in {"chief", "worker"} }

\* the argument checkpoint_path and the records model_dir holds at the start: a
\* fresh run, a run resumed from model_dir, a fresh run over older records (the
\* argument is a directory without record), and a run restored from a directory
\* or from a record
Starts ==
  { <<[kind |-> "none"], <<>>>>,
    <<[kind |-> "none"], <<1, 2>>>>,
    <<[kind |-> "dir", records |-> <<>>], <<1, 2>>>>,
    <<[kind |-> "dir", records |-> <<1, 2>>], <<>>>>,
    <<[kind |-> "file", step |-> 2], <<1, 2>>>> }

\* lines 675-678: what the disposable configuration of a trial sets of the
\* entries train reads
TrialRunConfig ==
  [train_steps |-> SampleIterations,
   save_checkpoints_steps |-> NoneV,
   keep_checkpoint_max |-> Absent,
   average_last_checkpoints |-> 0,
   save_summary_steps |-> 2,
   gradients_accum |-> Absent]

InitTrain ==
  /\ run_config \in
       [train_steps : {Absent} \cup 0..MaxTrainSteps,
        save_checkpoints_steps : {Absent, NoneV, 1, 2},
        keep_checkpoint_max : {Absent, 1, 2},
        average_last_checkpoints : {Absent, 2},
        save_summary_steps : {2},
        gradients_accum : {Absent} \cup 2..MaxAccum]
       \cup {TrialRunConfig}
  /\ TF_CONFIG \in Descriptors
  \* runs that accumulate over several micro-batches are explored as
  \* single-process runs without averaging, which the loop does not read
  /\ run_config.gradients_accum # Absent =>
       (TF_CONFIG = <<>> /\ run_config.average_last_checkpoints = Absent)
  /\ \E start \in Starts : checkpoint_path = start[1] /\ model_dir = start[2]
  /\ train_pc = "entry"
  /\ restored = <<>>
  /\ iterations = 0
  /\ gradients = <<>>
  /\ i = 0
  /\ accum_num_words = <<>>
  /\ step_gradients = <<>> /\ step_num_words = <<>> /\ applications = <<>> /\ saves = <<>> /\ reports = <<>>
  /\ averaged = <<>> /\ is_chief_calls = <<>>
  /\ train_ret = ""
  /\ IdleTune
  /\ IdleInfer

NextTrain ==
  \/ TrainStart
  \/ TrainIter
  \/ DatasetExhausted
  \/ MaybeAverageCheckpoints

SpecTrain == InitTrain /\ [][NextTrain]_vars

(***************************************************************************)
(* Runner.infer, lines 430-504, and misc.OrderRestorer.                    *)
(***************************************************************************)

\* _restore_checkpoint, lines 751-759: the path restored, <<>> standing for None
RestoreCheckpoint(path, dir) ==
  CASE path.kind = "file" -> <<path.step>>
    [] path.kind = "dir" -> LatestCheckpoint(path.records)
    [] OTHER -> LatestCheckpoint(dir)

\* misc.OrderRestorer(index_fn, callback_fn): nothing released, nothing pending
NewOrderRestorer == [next_index |-> 0, elements |-> <<>>]

\* OrderRestorer: the pending elements from next_index on are released in order
RECURSIVE Drain(_, _)
Drain(w, out) ==
  IF w.next_index \in DOMAIN w.elements
    THEN Drain([next_index |-> w.next_index + 1,
                elements |-> [k \in DOMAIN w.elements \ {w.next_index} |-> w.elements[k]]],
               Append(out, w.elements[w.next_index]))
    ELSE [writer |-> w, released |-> out, raised |-> FALSE]

\* OrderRestorer.push: the expected element is released, followed by the pending
\* ones that follow it; a later one is held; one already released or held raises
Push(w, x) ==
  IF x.index < w.next_index \/ x.index \in DOMAIN w.elements
    THEN [writer |-> w, released |-> <<>>, raised |-> TRUE]
  ELSE IF x.index = w.next_index
    THEN Drain([next_index |-> w.next_index + 1, elements |-> w.elements], <<x>>)
  ELSE [writer |-> [next_index |-> w.next_index,
                    elements |-> [k \in DOMAIN w.elements \cup {x.index} |->
                                    IF k = x.index THEN x ELSE w.elements[k]]],
        released |-> <<>>, raised |-> FALSE]

\* lines 490-492: the writer is created by the first indexed prediction
WriterForAlwaysNew(w) == NewOrderRestorer

WriterFor(w) == IF w = <<>> THEN NewOrderRestorer ELSE w[1]

\* line 495: write_fn(prediction) on a prediction without index
WriteDirectNone(out, prediction) == out

WriteDirect(out, prediction) == Append(out, prediction)

\* lines 489-495: one prediction is pushed to the writer or written directly
HandlePrediction(st, prediction) ==
  IF st.raised THEN st
  ELSE IF "index" \in DOMAIN prediction
    THEN LET r == Push(WriterFor(st.ordered_writer), prediction)
         IN  [ordered_writer |-> <<r.writer>>,
              written |-> st.written \o r.released,
              raised |-> r.raised]
    ELSE [ordered_writer |-> st.ordered_writer,
          written |-> WriteDirect(st.written, prediction),
          raised |-> FALSE]

\* line 488: the predictions of a batch, in the order of the batch dimension
RECURSIVE HandleBatch(_, _)
HandleBatch(st, predictions) ==
  IF predictions = <<>> THEN st
  ELSE HandleBatch(HandlePrediction(st, Head(predictions)), Tail(predictions))

\* the prediction of example k
Prediction(k, with_index) ==
  IF with_index THEN [index |-> k, tokens |-> k] ELSE [tokens |-> k]

\* the batches the dataset may yield next: some of the remaining examples, in any order
NextBatches(remaining) ==
  { b \in UNION { [1..m -> remaining] : m \in 1..MaxInferBatch } :
      \A p, q \in DOMAIN b : p # q => b[p] # b[q] }

\* lines 459-472: the checkpoint is restored and the stream opened
InferStart ==
  /\ infer_pc = "entry"
  /\ infer_restored' = RestoreCheckpoint(checkpoint_path, model_dir)
  /\ stream_open' = infer_args.predictions_file
  /\ infer_pc' = "loop"
  /\ UNCHANGED <<infer_args, num_examples, dataset, indexed, ordered_writer, written,
                 total_examples,
                 tuneVars, trainVars>>

\* lines 474-495: one batch is predicted and its predictions written or pushed
InferBatch ==
  /\ infer_pc = "loop"
  /\ \E batch \in NextBatches(dataset) :
       LET predictions == [p \in DOMAIN batch |-> Prediction(batch[p], indexed)]
           st == HandleBatch([ordered_writer |-> ordered_writer, written |-> written,
                              raised |-> FALSE], predictions)
       IN  /\ dataset' = dataset \ {batch[p] : p \in DOMAIN batch}
           /\ total_examples' = IF infer_args.log_time
                                  THEN total_examples + Len(batch) ELSE total_examples
           /\ ordered_writer' = st.ordered_writer
           /\ written' = st.written
           /\ infer_pc' = IF st.raised THEN "raised" ELSE "loop"
  /\ UNCHANGED <<infer_args, infer_restored, num_examples, indexed, stream_open, tuneVars, trainVars>>

\* line 476 or 468: the model or the writing raises on the next batch
InferBatchRaises ==
  /\ infer_pc = "loop"
  /\ dataset # {}
  /\ infer_pc' = "raised"
  /\ UNCHANGED <<infer_args, infer_restored, num_examples, dataset, indexed, stream_open,
                 ordered_writer, written, total_examples, tuneVars, trainVars>>

\* lines 497-504: the dataset is exhausted; with log_time the average over zero
\* examples raises ZeroDivisionError, else the stream is closed
InferEnd ==
  /\ infer_pc = "loop"
  /\ dataset = {}
  /\ IF infer_args.log_time /\ total_examples = 0
       THEN infer_pc' = "raised" /\ UNCHANGED stream_open
       ELSE infer_pc' = "returned" /\ stream_open' = FALSE
  /\ UNCHANGED <<infer_args, infer_restored, num_examples, dataset, indexed, ordered_writer, written,
                 total_examples, tuneVars, trainVars>>

InitInfer ==
  /\ infer_pc = "entry"
  /\ infer_args \in [predictions_file : BOOLEAN, log_time : BOOLEAN]
  /\ infer_restored = <<>>
  /\ num_examples \in 0..MaxExamples
  /\ dataset = 0..(num_examples - 1)
  /\ indexed \in BOOLEAN
  /\ stream_open = FALSE
  /\ ordered_writer = <<>>
  /\ written = <<>>
  /\ total_examples = 0
  /\ IdleTune
  /\ train_pc = "idle"
  /\ run_config = NoneV /\ TF_CONFIG = <<>>
  /\ \E start \in Starts : checkpoint_path = start[1] /\ model_dir = start[2]
  /\ restored = <<>>
  /\ iterations = 0 /\ gradients = <<>> /\ i = 0
  /\ accum_num_words = <<>> /\ step_gradients = <<>> /\ step_num_words = <<>> /\ applications = <<>>
  /\ saves = <<>> /\ reports = <<>> /\ averaged = <<>> /\ is_chief_calls = <<>>
  /\ train_ret = ""

NextInfer ==
  \/ InferStart
  \/ InferBatch
  \/ InferBatchRaises
  \/ InferEnd

SpecInfer == InitInfer /\ [][NextInfer]_vars

(***************************************************************************)
(* Claims about the batch-size search and the finalised parameters.        *)
(***************************************************************************)

\* The run is the one of claim C2: the default bounds and precision, and a
\* trial succeeds exactly when its candidate is <= 9000.
C2_OracleRun ==
  /\ tune_args = DefaultArgs(DefaultMaxBatchSize)
  /\ \A k \in DOMAIN trials : (trials[k].exit_code = 0) <=> (trials[k].batch_size <= 9000)

\* C2 (autotuner convergence): with min = 1024, max = 16384, min_range = 256 and
\* trials that succeed exactly for candidates <= 9000, at most 6 trials are ever
\* launched and the value returned lies in 8744..9000.
C2_AutotunerConvergence ==
  C2_OracleRun =>
    /\ Len(trials) + alive <= 6
    /\ tune_pc \in {"returned", "finalized"} => (8744 <= tune_ret /\ tune_ret <= 9000)

\* C2 witness: such a search has returned, after 6 trials, the size 8943.
C2_Witness ==
  /\ C2_OracleRun
  /\ tune_pc \in {"returned", "finalized"}
  /\ Len(trials) = 6
  /\ tune_ret = 8943

\* C5 (search invariant), as claimed: from the entry of _auto_tune_batch_size to
\* its return low <= high, and the size returned lies within the initial bounds.
C5_LowLeqHigh ==
  tune_args # NoArgs /\ min_batch_size # NoneV =>
    /\ min_batch_size <= max_batch_size
    /\ tune_ret # NoneV =>
         (tune_args.min_batch_size <= tune_ret /\ tune_ret <= tune_args.max_batch_size)

\* C6 (search termination), as claimed: every iteration of the search loop
\* strictly decreases high - low, whatever the precision.
C6_RangeShrinks ==
  [][(tune_pc = "wait" /\ tune_pc' = "while") =>
       (max_batch_size' - min_batch_size') < (max_batch_size - min_batch_size)]_vars

\* C7 (accumulation derivation): once the parameters are finalised with an
\* effective batch size set, gradients_accum is the least integer c >= 1 with
\* c * batch_size * num_replicas >= effective_batch_size; 4096, 512 and 2 give 4.
C7_AccumIsCeiling ==
  (tune_pc = "finalized" /\ train_config.effective_batch_size # NoneV) =>
    LET d == train_config.batch_size * num_devices
    IN  /\ gradients_accum >= 1
        /\ gradients_accum * d >= train_config.effective_batch_size
        /\ (gradients_accum - 1) * d < train_config.effective_batch_size
        /\ (train_config.effective_batch_size = 4096 /\ train_config.batch_size = 512
              /\ num_devices = 2) => gradients_accum = 4

\* C7 witness: the example of the claim has been finalised.
C7_Witness ==
  /\ tune_pc = "finalized"
  /\ train_config.effective_batch_size = 4096
  /\ train_config.batch_size = 512
  /\ num_devices = 2
  /\ gradients_accum = 4

(***************************************************************************)
(* Claims about the trials and the scratch files of the search.            *)
(***************************************************************************)

\* _auto_tune_batch_size was entered
SearchEntered == tune_args # NoArgs /\ min_batch_size # NoneV

\* C14 (unsupported autotune): with no batch size configured (absent or 0) and
\* the "examples" batch type, _finalize_training_parameters raises and nothing
\* else happens: the search is not entered, no trial process is started and no
\* scratch file is written; with the "tokens" batch type the search is entered.
C14_UnsupportedAutotune ==
  (entry = "finalize" /\ NeedsAutoTune(train_config) /\ tune_pc # "entry") =>
    IF train_config.batch_type = "examples"
      THEN /\ tune_pc = "raised"
           /\ ~SearchEntered
           /\ scratch = {} /\ batch_size = NoneV
           /\ alive = 0 /\ trials = <<>>
      ELSE SearchEntered

\* C14 witness: a configuration with batch_size = 0 and the "examples" batch type
\* was refused.
C14_Witness ==
  /\ entry = "finalize"
  /\ train_config.batch_size = 0
  /\ train_config.batch_type = "examples"
  /\ tune_pc = "raised"

\* C15 (scratch cleanup), as claimed: once _auto_tune_batch_size is left, by a
\* return or by an error, no scratch file it wrote remains, and removing the
\* files never is what makes it fail.
C15_ScratchCleanup ==
  (SearchEntered /\ tune_pc \in {"returned", "finalized", "raised"}) =>
    /\ scratch = {}
    /\ (tune_pc = "raised" => batch_size # NoneV)

\* C18 (sequential trials): at most one trial process is alive at any time, and
\* only while the search is blocked in process.wait(); the bounds change only as
\* a trial ends, its exit code recorded, and a trial configuration is written and
\* a trial started only when no trial is alive and every earlier trial has ended.
C18_SequentialTrials ==
  /\ [](alive \in {0, 1})
  /\ [](alive = 1 <=> tune_pc = "wait")
  /\ [][(SearchEntered /\ <<min_batch_size, max_batch_size>>' # <<min_batch_size, max_batch_size>>) =>
          /\ alive = 1 /\ alive' = 0
          /\ Len(trials') = Len(trials) + 1
          /\ trials'[Len(trials')].batch_size = batch_size]_vars
  /\ [][(batch_size' # batch_size \/ alive' > alive) =>
          /\ alive = 0
          /\ trials' = trials
          /\ (trials # <<>> => trials[Len(trials)].batch_size = batch_size)]_vars

\* C18 witness: a second trial is running, the first having ended.
C18_Witness ==
  /\ tune_pc = "wait"
  /\ alive = 1
  /\ Len(trials) = 1
  /\ trials[1].batch_size # batch_size

\* C19 (search step): the candidate of an iteration is floor((low + high) / 2);
\* an exit code of zero sets low to the candidate and leaves high unchanged, any
\* other exit code sets high to the candidate - 1 and leaves low unchanged, and
\* the search goes on to its next test without raising.
C19_SearchStep ==
  /\ [](tune_pc = "wait" =>
          /\ 2 * batch_size <= min_batch_size + max_batch_size
          /\ min_batch_size + max_batch_size <= 2 * batch_size + 1
          /\ trial_config.batch_size = batch_size)
  /\ [][tune_pc = "wait" =>
          LET exit_code == trials'[Len(trials')].exit_code
          IN  /\ Len(trials') = Len(trials) + 1
              /\ trials'[Len(trials')].batch_size = batch_size
              /\ tune_pc' = "while"
              /\ IF exit_code = 0
                   THEN min_batch_size' = batch_size /\ max_batch_size' = max_batch_size
                   ELSE max_batch_size' = batch_size - 1 /\ min_batch_size' = min_batch_size]_vars

\* C19 witness: a trial ended with a zero exit code and raised low, then a
\* trial killed by a signal lowered high to its candidate - 1.
C19_Witness ==
  /\ tune_pc = "while"
  /\ Len(trials) = 2
  /\ trials[1].exit_code = 0 /\ min_batch_size = trials[1].batch_size
  /\ trials[2].exit_code = -9 /\ max_batch_size = trials[2].batch_size - 1

\* the candidates whose trial ended with a zero exit code, and with another one
Succeeded == {trials[k].batch_size : k \in {t \in DOMAIN trials : trials[t].exit_code = 0}}

Failed == {trials[k].batch_size : k \in {t \in DOMAIN trials : trials[t].exit_code # 0}}

\* C23 (value returned), as claimed: the size _auto_tune_batch_size returns is
\* the largest candidate whose trial exited with zero, or the initial
\* min_batch_size when no trial succeeded; the initial min_batch_size is never
\* a candidate, and the size returned is never a candidate whose trial failed.
C23_ReturnedSize ==
  (SearchEntered /\ tune_ret # NoneV) =>
    /\ IF Succeeded # {}
         THEN tune_ret \in Succeeded /\ \A c \in Succeeded : c <= tune_ret
         ELSE tune_ret = tune_args.min_batch_size
    /\ \A k \in DOMAIN trials : trials[k].batch_size # tune_args.min_batch_size
    /\ tune_ret \notin Failed

(***************************************************************************)
(* Claims about Runner.train.                                              *)
(***************************************************************************)
AccumCount == IF run_config.gradients_accum = Absent THEN 1 ELSE run_config.gradients_accum

\* the sum, for variable v, of the gradients of micro-batches lo..hi (from 1)
RECURSIVE SumGrad(_, _, _)
SumGrad(v, lo, hi) ==
  IF lo > hi THEN 0 ELSE step_gradients[hi][v] + SumGrad(v, lo, hi - 1)

\* the micro-batch (from 1) after which application n was made
AppliedAfter(n) == applications[n].at + 1

\* the buffers are all zero in the state that follows an application
ZeroAfterApply ==
  (applications # <<>> /\ AppliedAfter(Len(applications)) = Len(step_gradients)) =>
    \A v \in DOMAIN gradients : gradients[v] = 0

\* C1 (accumulation correctness), as claimed: every application hands the
\* optimizer, for every variable, the sum of k = accumulation_count consecutive
\* step gradients, and the buffers are zero right after it.
C1_SumOfKGradients ==
  /\ \A n \in DOMAIN applications :
       /\ AppliedAfter(n) >= AccumCount
       /\ \A v \in DOMAIN applications[n].value :
            applications[n].value[v] =
              SumGrad(v, AppliedAfter(n) - AccumCount + 1, AppliedAfter(n))
  /\ ZeroAfterApply

\* C1 amended: every application hands the optimizer, for every variable, the
\* exact sum of the step gradients computed since the previous application (since
\* the start of the loop for the first); these are k gradients from the third
\* application on, 1 for the first application, which follows the very first
\* micro-batch, and k - 1 (1 when k = 1) for the second; the buffers are zero
\* right after every application.
C1_SumSinceLastApply ==
  /\ \A n \in DOMAIN applications :
       LET first == IF n = 1 THEN 1 ELSE AppliedAfter(n - 1) + 1
           last == AppliedAfter(n)
       IN  /\ Len(applications[n].value) = Len(step_gradients[last])
           /\ \A v \in DOMAIN applications[n].value :
                applications[n].value[v] = SumGrad(v, first, last)
           /\ last - first + 1 =
                IF n = 1 \/ AccumCount = 1 THEN 1
                ELSE IF n = 2 THEN AccumCount - 1
                ELSE AccumCount
  /\ ZeroAfterApply

\* C1 witness: with k = 3 a third application, the first of 3 gradients, was made.
C1_Witness ==
  /\ AccumCount = 3
  /\ Len(applications) = 3
  /\ AppliedAfter(3) - AppliedAfter(2) = 3
  /\ gradients = <<0, 0>>

KeepMax ==
  IF run_config.keep_checkpoint_max = Absent THEN 8 ELSE run_config.keep_checkpoint_max

SavedSteps == {saves[k] : k \in DOMAIN saves}

DirSteps == {model_dir[k] : k \in DOMAIN model_dir}

\* C4 (checkpoint pruning): once the loop has saved a record, model_dir holds at
\* most keep_max records; while no more than keep_max were saved all of them
\* remain, and once more than keep_max were saved exactly keep_max remain, those
\* with the keep_max highest steps among the saved ones.
C4_Pruning ==
  saves # <<>> =>
    /\ Len(model_dir) <= KeepMax
    /\ Cardinality(DirSteps) = Len(model_dir)
    /\ Cardinality(SavedSteps) <= KeepMax => SavedSteps \subseteq DirSteps
    /\ Cardinality(SavedSteps) > KeepMax =>
         /\ Len(model_dir) = KeepMax
         /\ DirSteps = {s \in SavedSteps :
                          Cardinality({t \in SavedSteps : t > s}) < KeepMax}

\* C4 witness: with keep_max = 2, four records were saved and the last two remain.
C4_Witness ==
  /\ KeepMax = 2
  /\ SavedSteps = {1, 2, 3, 4}
  /\ model_dir = <<3, 4>>

ChiefEnv == TF_CONFIG = <<>> \/ TF_CONFIG[1].task.type = "chief"

\* C8 (chief detection): is_chief() returns true when TF_CONFIG is unset or its
\* task.type is "chief", and false for any other task.type, "worker" included.
C8_ChiefDetection ==
  \A k \in DOMAIN is_chief_calls :
    /\ is_chief_calls[k] = ChiefEnv
    /\ TF_CONFIG = <<[task |-> [type |-> "worker"]]>> => is_chief_calls[k] = FALSE

\* C8 witness: is_chief() was called under a worker descriptor.
C8_Witness ==
  /\ TF_CONFIG = <<[task |-> [type |-> "worker"]]>>
  /\ is_chief_calls = <<FALSE>>

\* C9 (chief-only persistence), as claimed: a process that is not chief never
\* calls the checkpoint manager's save and never averages.
C9_ChiefOnlyPersistence ==
  ~ChiefEnv => (saves = <<>> /\ averaged = <<>>)

\* the restored step reached the configured train_steps
ReachedAtRestore ==
  /\ restored # <<>>
  /\ run_config.train_steps # Absent
  /\ restored[1] >= run_config.train_steps

\* C10 (resume short-circuit): when the restored step is >= train_steps, train
\* returns model_dir at once: no batch is pulled, no gradient computed or applied,
\* no report made, no checkpoint saved, no averaging run; the optimizer step is the
\* restored one and the records of model_dir are unchanged, then and ever after.
C10_ResumeShortCircuit ==
  [][/\ (train_pc = "entry" /\ ReachedAtRestore') =>
          /\ train_pc' = "returned"
          /\ train_ret' = "model_dir"
          /\ iterations' = restored'[1]
          /\ UNCHANGED <<model_dir, i, gradients, accum_num_words, step_gradients,
                         applications, saves, reports, averaged, is_chief_calls>>
     /\ (train_pc # "entry" /\ ReachedAtRestore) => UNCHANGED trainVars]_vars

\* C10 witness: a run restored at step 2 with train_steps = 2 has returned.
C10_Witness ==
  /\ train_pc = "returned"
  /\ restored = <<2>>
  /\ run_config.train_steps = 2
  /\ i = 0
  /\ model_dir = <<1, 2>>

(***************************************************************************)
(* Claims about the checkpoints and the end of Runner.train.               *)
(***************************************************************************)
TrainSteps == Get(run_config.train_steps, NoneV)

Interval == Get(run_config.save_checkpoints_steps, DefaultSaveCheckpointsSteps)

\* the step is one at which line 364 saves
SaveDue(step) == step % Interval = 0 \/ step = TrainSteps

\* the loop was left by the break of line 368
LeftAtMaxSteps ==
  /\ train_pc \notin {"entry", "loop"}
  /\ step_gradients # <<>>
  /\ iterations = TrainSteps

\* C11 (checkpoint boundaries): with a checkpoint interval configured, every
\* micro-batch iteration after which the optimizer step is divisible by the
\* interval or equals train_steps saves, within the iteration, the record numbered
\* with that step, which is then the newest record of model_dir; and whenever the
\* loop was left because train_steps was reached, model_dir holds the record
\* numbered train_steps.
C11_CheckpointBoundaries ==
  /\ [][(train_pc = "loop" /\ Len(step_gradients') = Len(step_gradients) + 1
           /\ Interval # NoneV /\ SaveDue(iterations')) =>
          /\ saves' = Append(saves, iterations')
          /\ model_dir' # <<>>
          /\ model_dir'[Len(model_dir')] = iterations'
          /\ train_pc' \in {"loop", "after_loop"}
          /\ train_pc' = "after_loop" <=> iterations' = TrainSteps]_vars
  /\ []((Interval # NoneV /\ LeftAtMaxSteps) => TrainSteps \in DirSteps)

\* C11 witness: with an interval of 2 and train_steps = 3, the loop was left at
\* step 3, whose record was saved because the step equals train_steps.
C11_Witness ==
  /\ Interval = 2
  /\ TrainSteps = 3
  /\ LeftAtMaxSteps
  /\ restored = <<>>
  /\ saves = <<2, 3>>
  /\ 3 \in DirSteps

\* C12 (max-steps bound), as claimed: with train_steps set to any value >= 0, the
\* optimizer step never exceeds train_steps through the training of the run.
C12_MaxStepsBound ==
  (TrainSteps # NoneV /\ step_gradients # <<>>) => iterations <= TrainSteps

\* the run returned at line 337, before the loop
ReturnedAtRestore == restored # <<>> /\ AlreadyReached(restored[1], TrainSteps)

\* averaging is enabled and the process is chief
AveragingDue ==
  Get(run_config.average_last_checkpoints, 0) > 0 /\ ChiefEnv

\* C13 (final location): once the loop has ended, train averages, once, and
\* returns model_dir/avg if and only if average_last_checkpoints > 0 and the
\* process is chief; in every other case it returns model_dir and averages nothing.
C13_FinalLocation ==
  /\ Len(averaged) <= 1
  /\ averaged # <<>> => (AveragingDue /\ train_pc = "returned")
  /\ (train_pc = "returned" /\ ~ReturnedAtRestore) =>
       /\ train_ret = (IF AveragingDue THEN "model_dir/avg" ELSE "model_dir")
       /\ averaged # <<>> <=> AveragingDue

\* C13 witness: a chief with averaging enabled has trained and returned
\* model_dir/avg, the last records having been averaged.
C13_Witness ==
  /\ train_pc = "returned"
  /\ step_gradients # <<>>
  /\ AveragingDue
  /\ train_ret = "model_dir/avg"
  /\ averaged = <<{2, 3}>>

\* C17 (restore resolution), as claimed: a checkpoint_path that is a directory
\* is resolved to the latest record of the directory, which is loaded, and with
\* a directory that holds no record train fails instead of going on unrestored.
C17_RestoreResolution ==
  (train_pc # "entry" /\ checkpoint_path.kind = "dir") =>
    IF checkpoint_path.records = <<>>
      THEN train_pc = "raised" /\ step_gradients = <<>>
      ELSE restored = <<checkpoint_path.records[Len(checkpoint_path.records)]>>

\* the optimizer step train started from
StartStep == IF restored = <<>> THEN 0 ELSE restored[1]

\* the micro-batches (from 0) after which line 346 applies, among the first n
ApplyPoints(n) == {j \in 0..(n - 1) : j = 0 \/ (j + 1) % AccumCount = 0}

\* C20 (apply schedule): the gradients are applied after micro-batch i (from 0)
\* if and only if i = 0 or i + 1 is a multiple of accumulation_count; every such
\* micro-batch makes exactly one application, which increases the optimizer step
\* by exactly 1 and leaves every buffer zero, and no other micro-batch changes
\* the optimizer step.
C20_ApplySchedule ==
  /\ []({applications[n].at : n \in DOMAIN applications} = ApplyPoints(Len(step_gradients)))
  /\ [](\A n, m \in DOMAIN applications : n < m => applications[n].at < applications[m].at)
  /\ [](train_pc # "entry" => iterations = StartStep + Len(applications))
  /\ [][(train_pc = "loop" /\ Len(step_gradients') = Len(step_gradients) + 1) =>
          IF i \in ApplyPoints(i + 1)
            THEN /\ iterations' = iterations + 1
                 /\ Len(applications') = Len(applications) + 1
                 /\ \A v \in DOMAIN gradients' : gradients'[v] = 0
            ELSE /\ iterations' = iterations
                 /\ applications' = applications]_vars

\* C20 witness: with accumulation_count = 2, four micro-batches were processed
\* and the gradients applied after micro-batches 0, 1 and 3.
C20_Witness ==
  /\ AccumCount = 2
  /\ Len(step_gradients) = 4
  /\ Len(applications) = 3
  /\ applications[1].at = 0 /\ applications[2].at = 1 /\ applications[3].at = 3
  /\ iterations = StartStep + 3

(***************************************************************************)
(* Claims about the counters, the pending gradients and the saved steps.   *)
(***************************************************************************)
ReportEvery == Get(run_config.save_summary_steps, DefaultSaveSummarySteps)

\* the optimizer step after micro-batch j (from 0)
StepAfter(j) == StartStep + Cardinality(ApplyPoints(j + 1))

\* the sum of counter key over micro-batches lo..hi (from 1)
RECURSIVE SumWords(_, _, _)
SumWords(key, lo, hi) ==
  IF lo > hi THEN 0 ELSE step_num_words[hi][key] + SumWords(key, lo, hi - 1)

\* the micro-batch (from 1) after which report n was made, 0 for n = 0
ReportedAfter(n) == IF n = 0 THEN 0 ELSE reports[n].at + 1

\* C21 (rolling counters): every status report receives, for every counter, the
\* sum of the counter over exactly the micro-batches processed since the previous
\* report (since the start of the loop for the first); a report is made after a
\* micro-batch exactly when the optimizer step is then divisible by the report
\* interval; every counter is zero right after a report, and otherwise holds the
\* sum over the micro-batches since the last report.
C21_RollingCounters ==
  /\ \A n \in DOMAIN reports :
       /\ ReportedAfter(n - 1) < ReportedAfter(n)
       /\ reports[n].step = StepAfter(reports[n].at)
       /\ \A key \in DOMAIN reports[n].words :
            reports[n].words[key] = SumWords(key, ReportedAfter(n - 1) + 1, ReportedAfter(n))
  /\ {reports[n].at : n \in DOMAIN reports} =
       {j \in 0..(Len(step_num_words) - 1) : StepAfter(j) % ReportEvery = 0}
  /\ \A key \in DOMAIN accum_num_words :
       accum_num_words[key] =
         SumWords(key, ReportedAfter(Len(reports)) + 1, Len(step_num_words))
  /\ (reports # <<>> /\ ReportedAfter(Len(reports)) = Len(step_num_words)) =>
       \A key \in DOMAIN accum_num_words : accum_num_words[key] = 0

\* C21 witness: a second report was made, two micro-batches after the first,
\* with the counters of these two micro-batches, and the counters are zero.
C21_Witness ==
  /\ Len(reports) = 2
  /\ reports[2].at = reports[1].at + 2
  /\ reports[2].words.source = step_num_words[reports[2].at].source
                                 + step_num_words[reports[2].at + 1].source
  /\ Len(step_num_words) = reports[2].at + 1
  /\ accum_num_words.source = 0 /\ accum_num_words.target = 0

\* C22 (trial isolation), as claimed: a run of train with the disposable
\* configuration of a trial does not fail, saves no checkpoint record and
\* averages nothing, and when it has stopped at train_steps it made its
\* sample_iterations steps.
C22_TrialIsolation ==
  run_config = TrialRunConfig =>
    /\ train_pc # "raised"
    /\ saves = <<>> /\ averaged = <<>>
    /\ LeftAtMaxSteps => iterations = SampleIterations

\* the sum, for variable v, of what the first n applications handed the optimizer
RECURSIVE SumApplied(_, _)
SumApplied(v, n) ==
  IF n = 0 THEN 0 ELSE applications[n].value[v] + SumApplied(v, n - 1)

\* the applications whose gradients include the one of micro-batch j (from 1)
AppliedIn(j) ==
  {n \in DOMAIN applications :
     (IF n = 1 THEN 1 ELSE AppliedAfter(n - 1) + 1) <= j /\ j <= AppliedAfter(n)}

\* the last micro-batch (from 1) whose gradient was applied, 0 when none
LastApplied == IF applications = <<>> THEN 0 ELSE AppliedAfter(Len(applications))

\* C24 (no gradient lost or applied twice): what the applications handed the
\* optimizer and what the buffers hold add up, for every variable, to the sum of
\* all step gradients, each counted once; the gradient of a micro-batch is part
\* of exactly one application up to the last apply and of none after it, where
\* it is pending in the buffers; and once the loop has ended nothing is applied
\* any more, so the pending gradients are never applied.
C24_AppliedAtMostOnce ==
  /\ [](step_gradients # <<>> =>
          \A v \in DOMAIN gradients :
            /\ SumApplied(v, Len(applications)) + gradients[v]
                 = SumGrad(v, 1, Len(step_gradients))
            /\ gradients[v] = SumGrad(v, LastApplied + 1, Len(step_gradients)))
  /\ [](\A j \in DOMAIN step_gradients :
          Cardinality(AppliedIn(j)) = (IF j <= LastApplied THEN 1 ELSE 0))
  /\ [][train_pc \notin {"entry", "loop"} =>
          UNCHANGED <<applications, gradients, iterations>>]_vars

\* C24 witness: with accumulation_count = 3 the dataset ended after 5
\* micro-batches; the gradients of the last two are pending and train returned.
C24_Witness ==
  /\ AccumCount = 3
  /\ train_pc = "returned"
  /\ Len(step_gradients) = 5
  /\ LastApplied = 3
  /\ gradients = <<SumGrad(1, 4, 5), SumGrad(2, 4, 5)>>
  /\ gradients[2] > 0

\* C25 (one save per step), as claimed: for any accumulation_count >= 1 the
\* checkpoint manager's save is never called twice with the same step, the
\* steps saved by a run being strictly increasing.
C25_SavesIncrease ==
  \A a, b \in DOMAIN saves : a < b => saves[a] < saves[b]

(***************************************************************************)
(* Claims about Runner.infer.                                              *)
(***************************************************************************)

\* C3 (order restoring): when the predictions carry the indices 0..n-1, in
\* whatever order the batches bring them, write_fn receives the predictions
\* 0, 1, 2, ... in this order without gap or repeat, nothing held is below the
\* next expected index, and at the return all n were written.
C3_OrderRestored ==
  indexed =>
    /\ \A k \in DOMAIN written : written[k] = [index |-> k - 1, tokens |-> k - 1]
    /\ ordered_writer # <<>> =>
         /\ ordered_writer[1].next_index = Len(written)
         /\ \A idx \in DOMAIN ordered_writer[1].elements :
              idx > ordered_writer[1].next_index
    /\ infer_pc = "returned" => Len(written) = num_examples

\* C3 witness: of three predictions, 2 was pushed first and is held, 0 was written.
C3_Witness ==
  /\ indexed
  /\ written = <<[index |-> 0, tokens |-> 0]>>
  /\ ordered_writer # <<>>
  /\ DOMAIN ordered_writer[1].elements = {2}
  /\ num_examples = 3
  /\ dataset = {1}

\* C16 (stream closure), as claimed: the stream infer opened on predictions_file
\* is closed once infer is left, by its return or by an error.
C16_StreamClosed ==
  infer_pc \in {"returned", "raised"} => ~stream_open

\* the places of written that hold the prediction of example k
WrittenAt(k) == {p \in DOMAIN written : written[p] = Prediction(k, indexed)}

\* C26 (every prediction written once): when infer returns, the prediction of
\* every example was handed to write_fn exactly once, whether written directly
\* or pushed to the OrderRestorer, and the OrderRestorer holds nothing.
C26_AllWrittenOnce ==
  infer_pc = "returned" =>
    /\ \A k \in 0..(num_examples - 1) : Cardinality(WrittenAt(k)) = 1
    /\ Len(written) = num_examples
    /\ (indexed /\ num_examples > 0) => ordered_writer # <<>>
    /\ ordered_writer # <<>> => DOMAIN ordered_writer[1].elements = {}

\* C26 witness: infer returned after three predictions without index were
\* written directly, in the order the batches brought them.
C26_Witness ==
  /\ infer_pc = "returned"
  /\ ~indexed
  /\ num_examples = 3
  /\ written = <<[tokens |-> 2], [tokens |-> 0], [tokens |-> 1]>>
  /\ ordered_writer = <<>>

====
